---- MODULE Spec2Model ----
(***************************************************************************)
(* rest-sync-lite: the durable request queue (storage/db.ts,               *)
(* queue/queue-manager.ts), the sync engine that drains it                 *)
(* (engine/sync.ts), the network watcher (network/watcher.ts) and the      *)
(* request mediator (index.ts), as one state machine.                      *)
(*                                                                         *)
(* A drain is suspended at its peek, at the platform fetch, at the token    *)
(* refresh and at the backoff timer; each of these ends one action and     *)
(* starts the next.  The storage write an outcome leads to (dequeue or     *)
(* update) is taken in the step in which the outcome arrives.  A fetch of  *)
(* the facade is suspended at window.fetch, at the add and at the          *)
(* registration of the sync tag.                                           *)
(*                                                                         *)
(* The queue manager and sync engine under src/ predate three things the   *)
(* facade (index.ts), the tests and db.ts rely on: the priority-aware      *)
(* peek, a caller-supplied id, and the sync:start / sync:end events.       *)
(* Those three are modelled from the specification (sections 4.E, 4.F)    *)
(* and are kept in definitions of their own.                               *)
(***************************************************************************)
EXTENDS Integers, Sequences, FiniteSets, TLC

\* ------------------------------------------------------------------ bounds
MaxEnq == 3            \* entries the queue-manager batch adds (keys 1..MaxEnq)
MaxPending == 2        \* entries pending when the drains start
MaxSends == 2          \* calls of RestSyncLite.fetch that reach the store
MaxCfgRetries == 1     \* the configured maxRetries ranges over 0..MaxCfgRetries
MaxAuth == 1           \* 401 answers one entry may receive
MaxFail == MaxCfgRetries + 2   \* transient outcomes one entry may receive
MaxListeners == 3      \* listeners registered for one event at a time

\* ------------------------------------------------------- program constants
DefaultMaxRetries == 5     \* this.config.maxRetries || 5
AcceptedStatus == 202      \* the synthesized deferred-acceptance response
ServerErrorFloor == 500    \* response.status >= 500 in RestSyncLite.fetch

Undefined == "undefined"   \* a property that is absent
Priorities == {"high", "normal", "low"}
Contexts == {"doc", "sw"}          \* document context, service-worker context
Loops == {"doc1", "doc2", "sw1"}   \* activations of SyncEngine.startSync's loop
CtxOf(l) == IF l = "sw1" THEN "sw" ELSE "doc"
Statuses == {200, 204, 400, 401, 429, 500}

VARIABLES
    store,          \* the object store: autoIncrement key -> RequestItem
    nextKey,        \* the store's key generator
    queueSize,      \* QueueManager._queueSize, per context
    navOnline,      \* navigator.onLine
    forcedOffline,  \* NetworkWatcher._forcedOffline (document context)
    wIsOnline,      \* NetworkWatcher._isOnline (document context)
    swSupported,    \* 'serviceWorker' in navigator && 'SyncManager' in window
    swRegistered,   \* a registration of the tag rest-sync-queue is pending
    config,         \* SyncConfig: maxRetries, refreshToken configured or not
    isSyncing,      \* SyncEngine.isSyncing, per context
    pc,             \* per loop: where the activation is suspended
    cur,            \* per loop: the {item, key} of the last peek
    snd,            \* the RestSyncLite.fetch call in progress
    hist,           \* per key: sends (0, 1, more), transient outcomes, 401s
    left,           \* per key: how the entry left the store, with what count
    drainEv,        \* per loop: sync:start / sync:end emitted by this activation
    emitted,        \* the events the last step emitted, in order
    lastOp,         \* the operation the last step performed
    qphase,         \* queue-manager harness: "enq", "drain" or "done"
    out,            \* queue-manager harness: the entries dequeued, in order
    databases,      \* two-instance page: database name -> store and key generator
    instances,      \* two-instance page: per RestSyncLite its dbName and size
    registry        \* an EventEmitter on its own: listeners, last emission

vars == <<store, nextKey, queueSize, navOnline, forcedOffline, wIsOnline,
          swSupported, swRegistered, config, isSyncing, pc, cur, snd, hist,
          left, drainEv, emitted, lastOp, qphase, out, databases, instances,
          registry>>

storeVars == <<store, nextKey>>
netVars == <<navOnline, forcedOffline, wIsOnline>>
envVars == <<swSupported, config>>
engineVars == <<isSyncing, pc, cur, drainEv>>
instVars == <<databases, instances>>
harnessVars == <<qphase, out, instVars, registry>>

\* ------------------------------------------------------------ storage/db.ts
Min(S) == CHOOSE x \in S : \A y \in S : x <= y

NullBody == [kind |-> "null", text |-> << >>]
NoItem == [id |-> [custom |-> FALSE, n |-> 0], url |-> "", method |-> "",
           headers |-> {}, body |-> NullBody, retryCount |-> 0,
           priority |-> Undefined]
NoEntry == [found |-> FALSE, id |-> 0, value |-> NoItem]
Entry(k, v) == [found |-> TRUE, id |-> k, value |-> v]

\* store.add(item) on an autoIncrement store
addItem(s, k, item) == [x \in DOMAIN s \cup {k} |-> IF x = k THEN item ELSE s[x]]

\* store.openCursor(): the first record in key order
peekItem(s) ==
    IF DOMAIN s = {} THEN NoEntry ELSE Entry(Min(DOMAIN s), s[Min(DOMAIN s)])

Max(S) == CHOOSE x \in S : \A y \in S : x >= y

\* a cursor opened in the wrong direction ('prev'): the last match, not the first
peekFirstByPriority_Last(s, priority) ==
    LET ks == {k \in DOMAIN s : s[k].priority = priority}
    IN  IF ks = {} THEN NoEntry ELSE Entry(Max(ks), s[Max(ks)])

\* index('priority_idx').openCursor(IDBKeyRange.only(priority)): the index
\* holds only the records that have the property, ordered by primary key
peekFirstByPriority(s, priority) ==
    LET ks == {k \in DOMAIN s : s[k].priority = priority}
    IN  IF ks = {} THEN NoEntry ELSE Entry(Min(ks), s[Min(ks)])

\* a delete that leaves the record in place
removeItem_Keeps(s, id) == s

\* store.delete(id): no error when the key is absent
removeItem(s, id) == [x \in DOMAIN s \ {id} |-> s[x]]

\* the older engine: the count is incremented in memory and never written
updateItem_Dropped(s, key, value) == s

\* an update that deletes the record and adds it again behind the others
updateItem_Requeue(s, key, value) ==
    addItem(removeItem(s, key), Max(DOMAIN s \cup {key}) + 1, value)

\* store.put(value, key): inserts when the key is absent
updateItem(s, key, value) ==
    [x \in DOMAIN s \cup {key} |-> IF x = key THEN value ELSE s[x]]

count(s) == Cardinality(DOMAIN s)

\* ------------------------------------------------- utils/uuid.ts, serializer
NoId == [custom |-> FALSE, n |-> 0]

\* crypto.randomUUID(): a fresh identity per call
generateUUID(n) == [custom |-> FALSE, n |-> n]

\* ------------------------------------------------- queue/queue-manager.ts
\* the queue manager under src/: the supplied id is overwritten
AssignId_AlwaysFresh(supplied, fresh) == fresh

\* enqueueRequest keeps a caller-supplied id (cancellation.test.ts, "should
\* allow custom ID"); the spread-then-overwrite of the file under src/ is older
AssignId(supplied, fresh) == IF supplied # NoId THEN supplied ELSE fresh

\* the item enqueueRequest builds from the request
NewItem(request, k) ==
    [id |-> AssignId(request.id, generateUUID(k)),
     url |-> request.url, method |-> request.method,
     headers |-> request.headers, body |-> request.body,
     retryCount |-> 0, priority |-> request.priority]

\* _queueSize++ after addItem
SizeInc(q, c) == [q EXCEPT ![c] = @ + 1]

\* _queueSize = Math.max(0, _queueSize - 1) after removeItem
SizeDec(q, c) == [q EXCEPT ![c] = IF @ > 0 THEN @ - 1 ELSE 0]

\* the first non-empty answer among a list of peeks
FirstFound(rs) ==
    IF \E i \in 1..Len(rs) : rs[i].found
    THEN rs[Min({i \in 1..Len(rs) : rs[i].found})]
    ELSE NoEntry

\* the peek of the queue manager under src/ (queue-manager.ts 63-73): the
\* plain cursor, first record in key order whatever its priority
peekNextRequest_Fifo(s) == peekItem(s)

\* peekNextRequest: high, then normal, then low, then the plain cursor
peekNextRequest(s) ==
    FirstFound(<<peekFirstByPriority(s, "high"),
                 peekFirstByPriority(s, "normal"),
                 peekFirstByPriority(s, "low"),
                 peekItem(s)>>)

\* ------------------------------------------------------------ ghost records
NoHist == [sent |-> 0, transient |-> 0, auth |-> 0]
NoLeft == [how |-> "in", retryCount |-> 0, ctx |-> "none"]
Keys == 1..MaxEnq
Op(name, c, k) == [op |-> name, ctx |-> c, key |-> k]
Ev(name, c, k) == [name |-> name, ctx |-> c, key |-> k]

\* ----------------------------------------------------------------- initial
NoHeaders == [shape |-> Undefined, name |-> "", value |-> ""]
NoRaw == [url |-> "", method |-> Undefined, priority |-> Undefined, id |-> NoId,
          headers |-> NoHeaders, body |-> [kind |-> Undefined, text |-> << >>]]
NoOutcome == [threw |-> FALSE, status |-> 0]
IdleSend == [pc |-> "idle", online |-> FALSE, netCalls |-> 0, net |-> NoOutcome,
             raw |-> NoRaw, result |-> 0, rejected |-> FALSE, key |-> 0,
             id |-> NoId, stored |-> "none", reg |-> "none"]

Configs == [maxRetries : 0..MaxCfgRetries, refreshToken : BOOLEAN]

\* const DB_NAME = 'rest-sync-lite' (queue-manager.ts) and the names an
\* application may configure
DB_NAME == "rest-sync-lite"
DbNames == {DB_NAME, "a", "b"}
Instances == {"A", "B"}
NoDatabase == [store |-> << >>, nextKey |-> 1]
NoInstance == [constructed |-> FALSE, dbName |-> Undefined, size |-> 0]

\* private listeners = {} (utils/events.ts), nothing emitted yet
NoRegistry == [listeners |-> << >>, invoked |-> << >>, propagated |-> FALSE]

\* the state a context is in once its constructors have run over a database
\* that holds st: RestSyncLite.constructor, QueueManager.init (size = count)
InitWith(st, on, sup, reg, cfg) ==
    /\ store = st
    /\ nextKey = count(st) + 1
    /\ queueSize = [c \in Contexts |-> count(st)]
    /\ navOnline = on
    /\ forcedOffline = FALSE
    /\ wIsOnline = on
    /\ swSupported = sup
    /\ swRegistered = reg
    /\ config = cfg
    /\ isSyncing = [c \in Contexts |-> FALSE]
    /\ pc = [l \in Loops |-> "idle"]
    /\ cur = [l \in Loops |-> NoEntry]
    /\ snd = IdleSend
    /\ hist = [k \in Keys |-> NoHist]
    /\ left = [k \in Keys |-> NoLeft]
    /\ drainEv = [l \in Loops |-> [starts |-> 0, ends |-> 0]]
    /\ emitted = << >>
    /\ lastOp = Op("init", "none", 0)
    /\ qphase = "enq"
    /\ out = << >>
    /\ databases = [n \in DbNames |-> NoDatabase]
    /\ instances = [i \in Instances |-> NoInstance]
    /\ registry = NoRegistry

EmptyStore == [k \in {} |-> NoItem]

\* the configuration the package documents (README: maxRetries 3 is scaled down)
PlainConfig == [maxRetries |-> 1, refreshToken |-> FALSE]

InitQueue == InitWith(EmptyStore, TRUE, FALSE, FALSE, PlainConfig)

\* ------------------------------------------------------ network/watcher.ts
\* NetworkWatcher.isOnline(): the worker builds a watcher of its own on every
\* sync event, so its override flag is never set
isOnline(c, forced, nav) == IF c = "doc" /\ forced THEN FALSE ELSE nav

\* ----------------------------------------------------------- engine/sync.ts
\* a success test that accepts 200 alone
ok_Only200(status) == status = 200

\* response.ok
ok(status) == status >= 200 /\ status <= 299

Resp(st) == [threw |-> FALSE, status |-> st]
Thrown == [threw |-> TRUE, status |-> 0]
Outcomes == {Resp(st) : st \in Statuses} \cup {Thrown}

\* the outcomes the specification calls transient: exception, 5xx, 429
IsTransientOutcome(o) == o.threw \/ o.status >= 500 \/ o.status = 429

\* a classification that takes nothing as permanent
isPermanentError_Never(error) == FALSE

\* a classification that takes every 4xx but 401 as permanent, 429 included
isPermanentError_Any4xx(error) ==
    ~error.threw /\ error.status >= 400 /\ error.status < 500
        /\ error.status # 401

\* SyncEngine.isPermanentError
isPermanentError(error) ==
    IF ~error.threw
    THEN error.status >= 400 /\ error.status < 500
         /\ error.status # 401 /\ error.status # 429
    ELSE FALSE

\* const maxRetries = this.config.maxRetries || 5
EffectiveMaxRetries(n) == IF n = 0 THEN DefaultMaxRetries ELSE n

\* a startSync that forgets the single-flight test
StartGuard_NoSingleFlight(syncing, online) == online

\* if (this.isSyncing) return; if (!this.network.isOnline()) return;
StartGuard(syncing, online) == ~syncing /\ online

FreeLoops(c) == {l \in Loops : CtxOf(l) = c /\ pc[l] = "idle"}

PickLoop(c) ==
    IF c = "sw" THEN "sw1" ELSE IF pc["doc1"] = "idle" THEN "doc1" ELSE "doc2"

Starts(c, online) == StartGuard(isSyncing[c], online) /\ FreeLoops(c) # {}

\* the events a call of startSync emits (sync:start is modelled from spec 4.F)
StartSyncEvents(c, online) ==
    IF Starts(c, online) THEN <<Ev("sync:start", c, 0)>> ELSE << >>

\* startSync up to its first await (the peek of the first iteration)
StartSync(c, online) ==
    IF Starts(c, online)
    THEN LET l == PickLoop(c)
         IN  /\ isSyncing' = [isSyncing EXCEPT ![c] = TRUE]
             /\ pc' = [pc EXCEPT ![l] = "peek"]
             /\ drainEv' = [drainEv EXCEPT ![l] = [starts |-> 1, ends |-> 0]]
             /\ cur' = cur
    ELSE UNCHANGED engineVars

\* sync:end, emitted in the finally block (modelled from spec 4.F)
SyncEndEvents(l) == <<Ev("sync:end", CtxOf(l), 0)>>

\* a finally block that reports the end before the outcome of the request
Finally_EndFirst(l, evs) ==
    /\ pc' = [pc EXCEPT ![l] = "idle"]
    /\ isSyncing' = [isSyncing EXCEPT ![CtxOf(l)] = FALSE]
    /\ drainEv' = [drainEv EXCEPT ![l].ends = @ + 1]
    /\ emitted' = SyncEndEvents(l) \o evs

\* a loop end outside a finally: the flag is left set
Finally_KeepsFlag(l, evs) ==
    /\ pc' = [pc EXCEPT ![l] = "idle"]
    /\ isSyncing' = isSyncing
    /\ drainEv' = [drainEv EXCEPT ![l].ends = @ + 1]
    /\ emitted' = evs \o SyncEndEvents(l)

\* finally { this.isSyncing = false }
Finally(l, evs) ==
    /\ pc' = [pc EXCEPT ![l] = "idle"]
    /\ isSyncing' = [isSyncing EXCEPT ![CtxOf(l)] = FALSE]
    /\ drainEv' = [drainEv EXCEPT ![l].ends = @ + 1]
    /\ emitted' = evs \o SyncEndEvents(l)

\* a loop that never tests the network: while (true)
LoopTop_IgnoresNetwork(l, evs) ==
    /\ pc' = [pc EXCEPT ![l] = "peek"]
    /\ emitted' = evs
    /\ UNCHANGED <<isSyncing, drainEv>>

\* while (this.network.isOnline()) { await this.queue.peekNextRequest() ...
LoopTop(l, evs) ==
    IF isOnline(CtxOf(l), forcedOffline, navOnline)
    THEN /\ pc' = [pc EXCEPT ![l] = "peek"]
         /\ emitted' = evs
         /\ UNCHANGED <<isSyncing, drainEv>>
    ELSE Finally(l, evs)

\* ghost: the entry leaves the store now (only if it is still there)
Leaves(k, how, rc, c) ==
    IF k \in DOMAIN store
    THEN [left EXCEPT ![k] = [how |-> how, retryCount |-> rc, ctx |-> c]]
    ELSE left

\* the peek resolves: queue-empty and out, or the fetch of the item is issued
PeekDone(l) ==
    /\ pc[l] = "peek"
    /\ LET next == peekNextRequest(store)
       IN  IF ~next.found
           THEN /\ Finally(l, <<Ev("queue-empty", CtxOf(l), 0)>>)
                /\ cur' = [cur EXCEPT ![l] = NoEntry]
                /\ hist' = hist
                /\ lastOp' = Op("peek-empty", CtxOf(l), 0)
           ELSE /\ pc' = [pc EXCEPT ![l] = "fetch"]
                /\ cur' = [cur EXCEPT ![l] = next]
                /\ hist' = [hist EXCEPT ![next.id].sent = Min({@ + 1, 2})]
                /\ emitted' = << >>
                /\ lastOp' = Op("fetch", CtxOf(l), next.id)
                /\ UNCHANGED <<isSyncing, drainEv>>
    /\ UNCHANGED <<storeVars, queueSize, netVars, envVars, swRegistered, snd,
                   left, harnessVars>>

\* await this.queue.dequeueRequest(key), then the event, then the next turn
DequeueAndGoOn(l, how, evName) ==
    LET k == cur[l].id
        c == CtxOf(l)
    IN  /\ store' = removeItem(store, k)
        /\ queueSize' = SizeDec(queueSize, c)
        /\ left' = Leaves(k, how, cur[l].value.retryCount, c)
        /\ cur' = [cur EXCEPT ![l] = NoEntry]
        /\ LoopTop(l, <<Ev("queue:update", c, k), Ev(evName, c, k)>>)
        /\ lastOp' = Op(how, c, k)

\* the transient branch with the incremented count rc
TransientBranch(l, rc) ==
    LET k == cur[l].id
        c == CtxOf(l)
        item == [cur[l].value EXCEPT !.retryCount = rc]
    IN  IF rc > EffectiveMaxRetries(config.maxRetries)
        THEN /\ store' = removeItem(store, k)
             /\ queueSize' = SizeDec(queueSize, c)
             /\ left' = Leaves(k, "giveup", rc, c)
             /\ cur' = [cur EXCEPT ![l] = NoEntry]
             /\ LoopTop(l, <<Ev("queue:update", c, k), Ev("request-error", c, k)>>)
             /\ lastOp' = Op("giveup", c, k)
        ELSE /\ store' = updateItem(store, k, item)
             /\ cur' = [cur EXCEPT ![l].value = item]
             /\ pc' = [pc EXCEPT ![l] = "backoff"]
             /\ emitted' = << >>
             /\ lastOp' = Op("retry", c, k)
             /\ UNCHANGED <<queueSize, left, isSyncing, drainEv>>

\* the fetch of processRequest settles with outcome o
Respond(l, o) ==
    /\ pc[l] = "fetch"
    /\ LET k == cur[l].id
           c == CtxOf(l)
       IN  /\ (~o.threw /\ o.status = 401) => hist[k].auth < MaxAuth
           /\ IsTransientOutcome(o) => hist[k].transient < MaxFail
           /\ hist' = [hist EXCEPT
                  ![k].auth = IF ~o.threw /\ o.status = 401 THEN @ + 1 ELSE @,
                  ![k].transient = IF IsTransientOutcome(o) THEN @ + 1 ELSE @]
           /\ IF ~o.threw /\ ok(o.status)
              THEN DequeueAndGoOn(l, "success", "request-success")
              ELSE IF ~o.threw /\ o.status = 401 /\ config.refreshToken
              THEN /\ pc' = [pc EXCEPT ![l] = "refresh"]
                   /\ emitted' = << >>
                   /\ lastOp' = Op("refresh", c, k)
                   /\ UNCHANGED <<store, queueSize, left, cur, isSyncing, drainEv>>
              ELSE IF isPermanentError(o)
              THEN DequeueAndGoOn(l, "permanent", "request-error")
              ELSE TransientBranch(l, cur[l].value.retryCount + 1)
    /\ UNCHANGED <<nextKey, netVars, envVars, swRegistered, snd, harnessVars>>

\* a refresh branch that counts the 401 as a retry and stores the count
RefreshResolved_Counts(l) ==
    /\ LoopTop(l, << >>)
    /\ lastOp' = Op("refreshed", CtxOf(l), cur[l].id)
    /\ cur' = [cur EXCEPT ![l] = NoEntry]
    /\ store' = updateItem(store, cur[l].id,
                   [cur[l].value EXCEPT !.retryCount = @ + 1])
    /\ UNCHANGED <<queueSize, left>>

\* await this.config.refreshToken(); continue
RefreshResolved(l) ==
    /\ LoopTop(l, << >>)
    /\ lastOp' = Op("refreshed", CtxOf(l), cur[l].id)
    /\ cur' = [cur EXCEPT ![l] = NoEntry]
    /\ UNCHANGED <<store, queueSize, left>>

\* a failure branch that leaves the loop (break) after the report
RefreshRejected_Ends(l) ==
    /\ store' = removeItem(store, cur[l].id)
    /\ queueSize' = SizeDec(queueSize, CtxOf(l))
    /\ left' = Leaves(cur[l].id, "refreshfail", cur[l].value.retryCount, CtxOf(l))
    /\ cur' = [cur EXCEPT ![l] = NoEntry]
    /\ Finally(l, <<Ev("queue:update", CtxOf(l), cur[l].id),
                    Ev("request-error", CtxOf(l), cur[l].id)>>)
    /\ lastOp' = Op("refreshfail", CtxOf(l), cur[l].id)

\* catch (refreshErr): dequeue, request-error, continue
RefreshRejected(l) == DequeueAndGoOn(l, "refreshfail", "request-error")

\* await this.config.refreshToken() settles
RefreshDone(l, resolved) ==
    /\ pc[l] = "refresh"
    /\ IF resolved THEN RefreshResolved(l) ELSE RefreshRejected(l)
    /\ UNCHANGED <<nextKey, netVars, envVars, swRegistered, snd, hist, harnessVars>>

\* the backoff timer fires
BackoffDone(l) ==
    /\ pc[l] = "backoff"
    /\ LoopTop(l, << >>)
    /\ lastOp' = Op("backoff-done", CtxOf(l), cur[l].id)
    /\ cur' = [cur EXCEPT ![l] = NoEntry]
    /\ UNCHANGED <<storeVars, queueSize, netVars, envVars, swRegistered, snd,
                   hist, left, harnessVars>>

\* RestSyncLite.syncNow()
SyncNow ==
    /\ StartSync("doc", isOnline("doc", forcedOffline, navOnline))
    /\ emitted' = StartSyncEvents("doc", isOnline("doc", forcedOffline, navOnline))
    /\ lastOp' = Op("syncNow", "doc", 0)
    /\ UNCHANGED <<storeVars, queueSize, netVars, envVars, swRegistered, snd,
                   hist, left, harnessVars>>

\* an updateState that takes the platform's word and ignores the override
Effective_IgnoresOverride(target, forced) == target

\* NetworkWatcher.updateState(target) with the override flag `forced`: the
\* watcher's state after it, and whether network-change is emitted
Effective(target, forced) == IF forced THEN FALSE ELSE target

Changes(target, forced) == wIsOnline # Effective(target, forced)

\* the listeners of network-change, in registration order: the engine's
\* (startSync when online), then the facade's (network:change)
OnNetworkChange(target, forced, nav, opName) ==
    /\ wIsOnline' = Effective(target, forced)
    /\ IF Changes(target, forced) /\ Effective(target, forced)
       THEN /\ StartSync("doc", isOnline("doc", forced, nav))
            /\ emitted' = StartSyncEvents("doc", isOnline("doc", forced, nav))
                            \o <<Ev("network:change", "doc", 1)>>
       ELSE /\ UNCHANGED engineVars
            /\ emitted' = IF Changes(target, forced)
                          THEN <<Ev("network:change", "doc", 0)>> ELSE << >>
    /\ lastOp' = Op(opName, "doc", IF Changes(target, forced) THEN 1 ELSE 0)

\* window 'online'
GoOnline ==
    /\ ~navOnline
    /\ navOnline' = TRUE
    /\ forcedOffline' = forcedOffline
    /\ OnNetworkChange(TRUE, forcedOffline, TRUE, "online")
    /\ UNCHANGED <<storeVars, queueSize, envVars, swRegistered, snd, hist, left,
                   harnessVars>>

\* window 'offline'
GoOffline ==
    /\ navOnline
    /\ navOnline' = FALSE
    /\ forcedOffline' = forcedOffline
    /\ OnNetworkChange(FALSE, forcedOffline, FALSE, "offline")
    /\ UNCHANGED <<storeVars, queueSize, envVars, swRegistered, snd, hist, left,
                   harnessVars>>

\* an override that only sets the flag and leaves the watcher's state alone
SetOfflineMode_FlagOnly(enabled) ==
    /\ forcedOffline # enabled
    /\ forcedOffline' = enabled
    /\ emitted' = << >>
    /\ lastOp' = Op("setOfflineMode", "doc", 0)
    /\ UNCHANGED <<storeVars, queueSize, navOnline, wIsOnline, envVars,
                   swRegistered, engineVars, snd, hist, left, harnessVars>>

\* NetworkWatcher.setOfflineMode(enabled)
SetOfflineMode(enabled) ==
    /\ forcedOffline # enabled
    /\ forcedOffline' = enabled
    /\ navOnline' = navOnline
    /\ OnNetworkChange(IF enabled THEN FALSE ELSE navOnline, enabled, navOnline,
                       "setOfflineMode")
    /\ UNCHANGED <<storeVars, queueSize, envVars, swRegistered, snd, hist, left,
                   harnessVars>>

\* a page load: a new RestSyncLite over the same database
Reload ==
    /\ queueSize' = [queueSize EXCEPT !["doc"] = count(store)]
    /\ forcedOffline' = FALSE
    /\ wIsOnline' = navOnline
    /\ isSyncing' = [isSyncing EXCEPT !["doc"] = FALSE]
    /\ pc' = [l \in Loops |-> IF CtxOf(l) = "doc" THEN "idle" ELSE pc[l]]
    /\ cur' = [l \in Loops |-> IF CtxOf(l) = "doc" THEN NoEntry ELSE cur[l]]
    /\ drainEv' = [l \in Loops |-> IF CtxOf(l) = "doc"
                                   THEN [starts |-> 0, ends |-> 0] ELSE drainEv[l]]
    /\ snd' = IdleSend
    /\ emitted' = <<Ev("queue:update", "doc", 0)>>
    /\ lastOp' = Op("reload", "doc", 0)
    /\ UNCHANGED <<storeVars, navOnline, envVars, swRegistered, hist, left,
                   harnessVars>>

\* the worker's 'sync' event for the tag rest-sync-queue:
\* processQueueInBackground builds queue, watcher and engine, then startSync
SyncEvent ==
    /\ swRegistered
    /\ navOnline
    /\ pc["sw1"] = "idle"
    /\ swRegistered' = FALSE
    /\ queueSize' = [queueSize EXCEPT !["sw"] = count(store)]
    /\ StartSync("sw", isOnline("sw", FALSE, navOnline))
    /\ emitted' = StartSyncEvents("sw", isOnline("sw", FALSE, navOnline))
    /\ lastOp' = Op("sync-event", "sw", 0)
    /\ UNCHANGED <<storeVars, netVars, envVars, snd, hist, left, harnessVars>>

\* ----------------------------------------------------------------- index.ts
\* String.prototype.toUpperCase on the method names in use
toUpperCase(m) ==
    CASE m = "post" -> "POST" [] m = "get" -> "GET" [] m = "put" -> "PUT"
      [] OTHER -> m

\* a method stored as the caller wrote it
Method_AsGiven(m) == IF m = Undefined \/ m = "" THEN "GET" ELSE m

\* init?.method?.toUpperCase() || 'GET'
Method(m) == IF m = Undefined \/ m = "" THEN "GET" ELSE toUpperCase(m)

\* Headers lower-cases the names it iterates
toLowerCase(n) == CASE n = "X-Id" -> "x-id" [] OTHER -> n

\* the three accepted header shapes, flattened to name -> value
NormalizeHeaders(h) ==
    CASE h.shape = "Headers" -> {<<toLowerCase(h.name), h.value>>}
      [] h.shape = "pairs" -> {<<h.name, h.value>>}
      [] h.shape = "map" -> {<<h.name, h.value>>}
      [] OTHER -> {}

\* utils/serializer.ts: falsy -> null; text and the native kinds as they are;
\* anything else through JSON.stringify
serializeBody(b) ==
    CASE b.kind \in {Undefined, "null"} -> NullBody
      [] b.kind = "string" -> IF b.text = << >> THEN NullBody ELSE b
      [] b.kind \in {"blob", "buffer", "form", "params"} -> b
      [] OTHER -> [kind |-> "string", text |-> <<"JSON">> \o b.text]

\* the argument enqueueAndMock hands to enqueueRequest
QueuedRequest(raw) ==
    [id |-> raw.id, url |-> raw.url, method |-> Method(raw.method),
     headers |-> NormalizeHeaders(raw.headers), body |-> serializeBody(raw.body),
     priority |-> raw.priority]

\* an earlier revision: only a thrown fetch is queued, a 5xx is passed through
ShouldQueue_ThrowOnly(o) == o.threw

\* catch (err) or response.status >= 500: queue for replay
ShouldQueue(o) == o.threw \/ o.status >= ServerErrorFloor

\* an enqueue failure that is swallowed
EnqueueSettles_Swallowed(storageOk) == "resolved"

\* const id = await this.queue.enqueueRequest(...): a failed add rejects
EnqueueSettles(storageOk) == IF storageOk THEN "resolved" ELSE "rejected"

\* a registration failure that escapes
RegisterSettles_Escapes(regOk) == IF regOk THEN "resolved" ELSE "rejected"

\* try { await registration.sync.register(...) } catch { console.warn }
RegisterSettles(regOk) == "resolved"

\* RestSyncLite.fetch up to its first await
SendStart(raw) ==
    /\ snd.pc \in {"idle", "done"}
    /\ nextKey <= MaxSends
    /\ LET on == isOnline("doc", forcedOffline, navOnline)
       IN  snd' = [IdleSend EXCEPT !.pc = IF on THEN "net" ELSE "enq",
                                   !.online = on,
                                   !.netCalls = IF on THEN 1 ELSE 0,
                                   !.raw = raw]
    /\ emitted' = << >>
    /\ lastOp' = Op("send", "doc", 0)
    /\ UNCHANGED <<storeVars, queueSize, netVars, envVars, swRegistered,
                   engineVars, hist, left, harnessVars>>

\* window.fetch settles with outcome o
SendNetReturn(o) ==
    /\ snd.pc = "net"
    /\ snd' = IF ShouldQueue(o)
              THEN [snd EXCEPT !.pc = "enq", !.net = o]
              ELSE [snd EXCEPT !.pc = "done", !.net = o, !.result = o.status]
    /\ emitted' = << >>
    /\ lastOp' = Op("send-net", "doc", 0)
    /\ UNCHANGED <<storeVars, queueSize, netVars, envVars, swRegistered,
                   engineVars, hist, left, harnessVars>>

\* enqueueAndMock: the add transaction settles, then the registration test
SendEnqueue(storageOk) ==
    /\ snd.pc = "enq"
    /\ IF storageOk
       THEN /\ store' = addItem(store, nextKey,
                                NewItem(QueuedRequest(snd.raw), nextKey))
            /\ nextKey' = nextKey + 1
            /\ queueSize' = SizeInc(queueSize, "doc")
            /\ emitted' = <<Ev("queue:update", "doc", nextKey)>>
       ELSE /\ UNCHANGED <<store, nextKey, queueSize>>
            /\ emitted' = << >>
    /\ snd' = IF EnqueueSettles(storageOk) = "rejected"
              THEN [snd EXCEPT !.pc = "done", !.rejected = TRUE,
                               !.stored = "failed"]
              ELSE IF swSupported /\ ~isOnline("doc", forcedOffline, navOnline)
              THEN [snd EXCEPT !.pc = "reg",
                               !.key = IF storageOk THEN nextKey ELSE 0,
                               !.id = IF storageOk
                                      THEN NewItem(QueuedRequest(snd.raw), nextKey).id
                                      ELSE NoId,
                               !.stored = IF storageOk THEN "ok" ELSE "failed"]
              ELSE [snd EXCEPT !.pc = "done", !.result = AcceptedStatus,
                               !.key = IF storageOk THEN nextKey ELSE 0,
                               !.id = IF storageOk
                                      THEN NewItem(QueuedRequest(snd.raw), nextKey).id
                                      ELSE NoId,
                               !.stored = IF storageOk THEN "ok" ELSE "failed"]
    /\ lastOp' = Op("send-enqueue", "doc", IF storageOk THEN nextKey ELSE 0)
    /\ UNCHANGED <<netVars, envVars, swRegistered, engineVars, hist, left,
                   harnessVars>>

\* navigator.serviceWorker.ready and registration.sync.register settle
SendRegister(regOk) ==
    /\ snd.pc = "reg"
    /\ swRegistered' = (swRegistered \/ regOk)
    /\ snd' = IF RegisterSettles(regOk) = "rejected"
              THEN [snd EXCEPT !.pc = "done", !.rejected = TRUE,
                               !.reg = "failed"]
              ELSE [snd EXCEPT !.pc = "done", !.result = AcceptedStatus,
                               !.reg = IF regOk THEN "ok" ELSE "failed"]
    /\ emitted' = << >>
    /\ lastOp' = Op("send-register", "doc", 0)
    /\ UNCHANGED <<storeVars, queueSize, netVars, envVars, engineVars, hist,
                   left, harnessVars>>

\* the calls under study: init absent; a lower-case method with a Headers
\* object and an object body; an upper-case method with a header map, a text
\* body and a priority; a method with an array of pairs and no body
Raws ==
    {[NoRaw EXCEPT !.url = "/x"],
     [NoRaw EXCEPT !.url = "/x", !.method = "post",
                   !.headers = [shape |-> "Headers", name |-> "X-Id", value |-> "7"],
                   !.body = [kind |-> "object", text |-> <<"n:1">>]],
     [NoRaw EXCEPT !.url = "/y", !.method = "PUT", !.priority = "high",
                   !.headers = [shape |-> "map", name |-> "X-Id", value |-> "7"],
                   !.body = [kind |-> "string", text |-> <<"hello">>]],
     [NoRaw EXCEPT !.url = "/y", !.method = "get",
                   !.headers = [shape |-> "pairs", name |-> "accept", value |-> "*"],
                   !.body = [kind |-> "string", text |-> << >>]]}

\* one document context whose application calls fetch while the connectivity
\* and the override change
InitSend ==
    \E on \in BOOLEAN, sup \in BOOLEAN :
        InitWith(EmptyStore, on, sup, FALSE, PlainConfig)

NextSend ==
    \/ \E raw \in Raws : SendStart(raw)
    \/ \E o \in Outcomes : SendNetReturn(o)
    \/ \E b \in BOOLEAN : SendEnqueue(b)
    \/ \E b \in BOOLEAN : SendRegister(b)
    \/ GoOnline
    \/ GoOffline
    \/ \E b \in BOOLEAN : SetOfflineMode(b)

SpecSend == InitSend /\ [][NextSend]_vars

\* ------------------------------------------------------------ cancellation
\* the keys whose record carries the logical id
KeysWithId(s, id) == {k \in DOMAIN s : s[k].id = id}

\* a scan that deletes every record that matches
removeByField_All(s, id) == [x \in DOMAIN s \ KeysWithId(s, id) |-> s[x]]

\* a scan that finds the record and leaves it where it is
removeByField_Keeps(s, id) == s

\* db.ts removeByField('id', value): the cursor deletes the first record that
\* matches and stops
removeByField(s, id) ==
    IF KeysWithId(s, id) = {} THEN s ELSE removeItem(s, Min(KeysWithId(s, id)))

\* a cancel that always reports success
CancelResult_AlwaysTrue(s, id) == TRUE

\* what removeByField resolves with
CancelResult(s, id) == KeysWithId(s, id) # {}

\* the key a cancel removes, 0 when there is none
CancelledKey(s, id) == IF KeysWithId(s, id) = {} THEN 0 ELSE Min(KeysWithId(s, id))

\* RestSyncLite.cancelRequest(id) over QueueManager.cancelRequest (spec 4.E:
\* locate by logical id, remove if found, size - 1 clamped, emit; the facade
\* emits request:cancelled when the answer is true)
CancelRequest(id) ==
    LET k == CancelledKey(store, id)
        result == CancelResult(store, id)
    IN  /\ store' = removeByField(store, id)
        /\ queueSize' = IF k # 0 THEN SizeDec(queueSize, "doc") ELSE queueSize
        /\ left' = IF k # 0 THEN Leaves(k, "cancel", store[k].retryCount, "doc")
                    ELSE left
        /\ emitted' = (IF k # 0 THEN <<Ev("queue:update", "doc", k)>> ELSE << >>)
                        \o (IF result THEN <<Ev("request:cancelled", "doc", k)>>
                            ELSE << >>)
        /\ lastOp' = Op(IF result THEN "cancel-true" ELSE "cancel-false", "doc", k)
        /\ UNCHANGED <<nextKey, netVars, envVars, swRegistered, engineVars, snd,
                       hist, harnessVars>>

\* ------------------------------------------- caller-chosen ids and cancel
CustomId(n) == [custom |-> TRUE, n |-> n]

\* fetch calls with and without an id of the caller's choosing
IdRaws ==
    {[NoRaw EXCEPT !.url = "/x", !.method = "POST", !.id = i] :
        i \in {NoId, CustomId(1), CustomId(2)}}

\* the ids the application may cancel: its own and the generated ones
IdPool == {CustomId(1), CustomId(2)} \cup {generateUUID(k) : k \in 1..MaxSends}

InitIds ==
    \E on \in BOOLEAN : InitWith(EmptyStore, on, FALSE, FALSE, PlainConfig)

NextIds ==
    \/ \E raw \in IdRaws : SendStart(raw)
    \/ \E o \in Outcomes : SendNetReturn(o)
    \/ \E b \in BOOLEAN : SendEnqueue(b)
    \/ \E id \in IdPool : CancelRequest(id)
    \/ GoOnline
    \/ GoOffline

SpecIds == InitIds /\ [][NextIds]_vars

\* ------------------------------------------------- the engine over a queue
\* the requests that were queued before the drains start
DrainRequest(p) ==
    [id |-> NoId, url |-> "/x", method |-> "POST", headers |-> {},
     body |-> [kind |-> "string", text |-> <<"JSON", "n:1">>], priority |-> p]

\* the stores n enqueues leave behind, n in 1..MaxPending
PendingStores ==
    UNION {{[k \in 1..n |-> NewItem(DrainRequest(f[k]), k)] :
               f \in [1..n -> {"normal", "high"}]} : n \in 1..MaxPending}

\* a normal entry, alone or with an urgent one queued behind it
MixedStores ==
    {st \in PendingStores :
        /\ count(st) <= 2
        /\ \A k \in DOMAIN st : st[k].priority = IF k = 1 THEN "normal" ELSE "high"}

\* the steps of the drain loop, in whichever context runs it
DrainSteps ==
    \/ \E l \in Loops : PeekDone(l)
    \/ \E l \in Loops, o \in Outcomes : Respond(l, o)
    \/ \E l \in Loops, b \in BOOLEAN : RefreshDone(l, b)
    \/ \E l \in Loops : BackoffDone(l)

\* one document context: syncNow, connectivity events, page loads
InitDrain ==
    \E st \in MixedStores, cfg \in Configs :
        InitWith(st, TRUE, FALSE, FALSE, cfg)

NextDrain ==
    \/ SyncNow
    \/ DrainSteps
    \/ GoOnline
    \/ GoOffline
    \/ Reload

SpecDrain == InitDrain /\ [][NextDrain]_vars

\* a document and a worker on the same database, one entry pending and a
\* registration of the sync tag outstanding
InitRace ==
    \E st \in {s \in PendingStores : count(s) = 1}, cfg \in Configs :
        InitWith(st, TRUE, TRUE, TRUE, cfg)

NextRace ==
    \/ SyncNow
    \/ DrainSteps
    \/ GoOnline
    \/ GoOffline
    \/ SyncEvent

SpecRace == InitRace /\ [][NextRace]_vars

\* the ids an application may try to cancel: those of the pending entries and
\* one that was never queued
CancelIds == {generateUUID(k) : k \in 1..3}

\* one document context whose application cancels entries while it drains
NextCancel ==
    \/ SyncNow
    \/ DrainSteps
    \/ GoOnline
    \/ GoOffline
    \/ \E id \in CancelIds : CancelRequest(id)

SpecCancel == InitDrain /\ [][NextCancel]_vars

\* ------------------------------------------- queue manager, driven directly
\* (test/queue.test.ts: enqueue a batch, then peek and dequeue until empty)
QRequest(p) == [id |-> NoId, url |-> "/q", method |-> "POST", headers |-> {},
                body |-> NullBody, priority |-> p]

QEnqueue ==
    /\ qphase = "enq"
    /\ nextKey <= MaxEnq
    /\ \E p \in Priorities \cup {Undefined} :
          store' = addItem(store, nextKey, NewItem(QRequest(p), nextKey))
    /\ nextKey' = nextKey + 1
    /\ queueSize' = SizeInc(queueSize, "doc")
    /\ emitted' = <<Ev("queue:update", "doc", nextKey)>>
    /\ lastOp' = Op("enqueueRequest", "doc", nextKey)
    /\ UNCHANGED <<netVars, envVars, engineVars, swRegistered, snd, hist, left,
                   harnessVars>>

QPeekDequeue ==
    /\ qphase \in {"enq", "drain"}
    /\ LET next == peekNextRequest(store)
       IN  IF next.found
           THEN /\ store' = removeItem(store, next.id)
                /\ queueSize' = SizeDec(queueSize, "doc")
                /\ out' = Append(out, next)
                /\ qphase' = "drain"
                /\ emitted' = <<Ev("queue:update", "doc", next.id)>>
                /\ lastOp' = Op("dequeueRequest", "doc", next.id)
           ELSE /\ qphase' = "done"
                /\ emitted' = << >>
                /\ lastOp' = Op("peekNextRequest", "doc", 0)
                /\ UNCHANGED <<store, queueSize, out>>
    /\ UNCHANGED <<instVars, registry>>
    /\ UNCHANGED <<nextKey, netVars, envVars, engineVars, swRegistered, snd,
                   hist, left>>

NextQueue == QEnqueue \/ QPeekDequeue

SpecQueue == InitQueue /\ [][NextQueue]_vars

\* the order the data model gives the priority classes (absent counts as normal)
Rank(p) == CASE p = "high" -> 0 [] p = "normal" -> 1 [] p = "low" -> 2
             [] OTHER -> 1

Before(a, b) ==
    \/ Rank(a.value.priority) < Rank(b.value.priority)
    \/ Rank(a.value.priority) = Rank(b.value.priority) /\ a.id < b.id

OutTagged == \A i \in 1..Len(out) : out[i].value.priority \in Priorities
OutUntagged == \A i \in 1..Len(out) : out[i].value.priority = Undefined

TwoXX == {o \in Outcomes : ~o.threw /\ o.status >= 200 /\ o.status <= 299}

InitHappy ==
    \E st \in PendingStores, cfg \in Configs :
        InitWith(st, TRUE, FALSE, FALSE, cfg)

HappyPeek == \E l \in Loops : PeekDone(l)
HappyRespond == \E l \in Loops, o \in TwoXX : Respond(l, o)

NextHappy ==
    \/ SyncNow
    \/ HappyPeek
    \/ HappyRespond

\* a storage transaction and a fetch that is answered both settle
SpecHappy ==
    InitHappy /\ [][NextHappy]_vars /\ WF_vars(HappyPeek) /\ WF_vars(HappyRespond)

Pending == 1..(nextKey - 1)

DrainOver(l) ==
    /\ pc[l] = "idle"
    /\ drainEv[l].ends = 1
    /\ DOMAIN store = {}
    /\ \A k \in Pending : hist[k].sent = 1

DocActive == {l \in Loops : CtxOf(l) = "doc" /\ pc[l] # "idle"}

NoSyncStart(evs) == \A i \in 1..Len(evs) : evs[i].name # "sync:start"

\* a call of startSync made while a drain of the document context is running
BusyCall == isSyncing["doc"] /\ (SyncNow \/ GoOnline)

\* C3: in the document context at most one activation of the drain loop is
\* ever active, and isSyncing is set exactly while one is; a startSync made
\* while isSyncing is set (from syncNow or from the transition to online)
\* changes nothing in the engine, emits no sync:start and sends nothing.
C3_SingleFlight ==
    /\ [](Cardinality(DocActive) <= 1 /\ (isSyncing["doc"] <=> DocActive # {}))
    /\ [][BusyCall => /\ UNCHANGED <<engineVars, hist, store>>
                       /\ NoSyncStart(emitted')]_vars

\* the connection came back while the fetch of the running drain was pending
C3_Witness ==
    /\ lastOp = Op("online", "doc", 1)
    /\ pc["doc1"] = "fetch" /\ pc["doc2"] = "idle"
    /\ isSyncing["doc"]
    /\ emitted = <<Ev("network:change", "doc", 1)>>

\* ------------------------------------------------------------------- fetch
ExpectedMethod(m) ==
    CASE m \in {"post", "POST"} -> "POST"
      [] m \in {"put", "PUT"} -> "PUT"
      [] OTHER -> "GET"

ExpectedBody(b) ==
    CASE b.kind = "object" -> [kind |-> "string", text |-> <<"JSON">> \o b.text]
      [] b.kind = "string" /\ b.text # << >> -> b
      [] OTHER -> NullBody

HeaderKept(h, stored) ==
    h.shape # Undefined =>
        \E e \in stored : e[2] = h.value /\ toLowerCase(e[1]) = toLowerCase(h.name)

Persisted(raw, k) ==
    /\ k \in DOMAIN store
    /\ store[k].url = raw.url
    /\ store[k].method = ExpectedMethod(raw.method)
    /\ HeaderKept(raw.headers, store[k].headers)
    /\ Cardinality(store[k].headers) = IF raw.headers.shape = Undefined THEN 0 ELSE 1
    /\ store[k].body = ExpectedBody(raw.body)
    /\ store[k].retryCount = 0

\* the add of an offline call commits
OfflineAdd == snd.pc = "enq" /\ ~snd.online /\ snd'.stored = "ok"

\* C4: a fetch called while the watcher reports offline never calls
\* window.fetch; when its add commits the store gains exactly one entry, under
\* a fresh key, holding the url, the upper-cased method, the headers and the
\* serialized body, every other entry is untouched and queueSize grows by one;
\* when the call settles without an enqueue failure its status is 202.
C4_OfflineSend ==
    /\ [](~snd.online => snd.netCalls = 0)
    /\ []((~snd.online /\ snd.stored = "ok") => Persisted(snd.raw, snd.key))
    /\ []((~snd.online /\ snd.pc = "done" /\ ~snd.rejected)
             => snd.result = AcceptedStatus /\ snd.stored = "ok")
    /\ [][OfflineAdd => /\ snd'.key \notin DOMAIN store
                         /\ DOMAIN store' = DOMAIN store \cup {snd'.key}
                         /\ \A k \in DOMAIN store : store'[k] = store[k]
                         /\ count(store') = count(store) + 1
                         /\ queueSize'["doc"] = queueSize["doc"] + 1]_vars

\* forced offline on a connected machine: a lower-case post is the second entry
C4_Witness ==
    /\ snd.pc = "done" /\ ~snd.online /\ snd.result = AcceptedStatus
    /\ snd.netCalls = 0
    /\ forcedOffline /\ navOnline
    /\ snd.raw.method = "post"
    /\ snd.key = 2 /\ count(store) = 2 /\ queueSize["doc"] = 2
    /\ store[2].method = "POST"

QueueWorthy(o) == o.threw \/ o.status >= 500

\* window.fetch answers a call with something that is not queued
PassThrough == snd.pc = "net" /\ snd'.pc = "done"

\* C5: a fetch called while the watcher reports online calls window.fetch
\* once; it reaches the enqueue exactly when window.fetch threw or answered
\* with a status >= 500, and then settles with 202 and the entry stored;
\* otherwise (any 2xx, any 4xx) it settles with the status window.fetch gave
\* and the store and queueSize are as they were.
C5_OnlineSend ==
    /\ []((snd.online /\ snd.pc # "idle") => snd.netCalls = 1)
    /\ []((snd.online /\ snd.pc \in {"enq", "reg"}) => QueueWorthy(snd.net))
    /\ []((snd.online /\ snd.pc = "done" /\ ~snd.rejected) =>
            IF QueueWorthy(snd.net)
            THEN snd.result = AcceptedStatus /\ snd.stored = "ok"
                 /\ snd.key \in DOMAIN store
            ELSE snd.result = snd.net.status /\ snd.stored = "none"
                 /\ snd.key = 0)
    /\ [][PassThrough => UNCHANGED <<store, nextKey, queueSize>>]_vars

\* a 500 from the server became a queued entry and a 202
C5_Witness ==
    /\ snd.pc = "done" /\ snd.online /\ ~snd.net.threw /\ snd.net.status = 500
    /\ snd.result = AcceptedStatus /\ snd.stored = "ok"
    /\ snd.key \in DOMAIN store

\* C6: a settled fetch is rejected exactly when the add of its entry failed;
\* a 202 is only produced after the add committed (the entry is in the
\* store), a failed add never yields a 202, and a failed registration of the
\* sync tag leaves the call resolved with 202.
C6_RejectsOnlyOnPersistFailure ==
    snd.pc = "done" =>
        /\ snd.rejected <=> snd.stored = "failed"
        /\ snd.result = AcceptedStatus =>
               snd.stored = "ok" /\ snd.key \in DOMAIN store
        /\ snd.stored = "failed" => snd.result # AcceptedStatus
        /\ snd.reg = "failed" => ~snd.rejected /\ snd.result = AcceptedStatus

\* the entry was stored, the registration failed, the caller still got 202
C6_Witness ==
    /\ snd.pc = "done" /\ snd.reg = "failed" /\ snd.stored = "ok"
    /\ snd.result = AcceptedStatus /\ ~snd.rejected
    /\ snd.key \in DOMAIN store

\* -------------------------------------------------------- retry accounting
\* an entry met a transient outcome and is still queued
TransientKept(k) ==
    /\ hist'[k].transient = hist[k].transient + 1
    /\ k \in DOMAIN store'

\* C7: in one document context, across page loads: a transient outcome of an
\* entry that stays queued leaves its stored retryCount one above the stored
\* value before the attempt; while a loop waits out the backoff the store
\* already holds the count the loop computed; a page load leaves the store as
\* it is and the next peek reads the stored count, so the stored count never
\* falls behind the transient outcomes the entry has met.
C7_RetryCountPersisted ==
    /\ [][\A k \in DOMAIN store :
             TransientKept(k) => store'[k].retryCount = store[k].retryCount + 1]_vars
    /\ [](\A l \in Loops : pc[l] = "backoff" =>
             /\ cur[l].id \in DOMAIN store
             /\ store[cur[l].id].retryCount = cur[l].value.retryCount)
    /\ [][Reload => store' = store]_vars
    /\ [][\A l \in Loops : (pc[l] = "peek" /\ pc'[l] = "fetch") =>
             cur'[l].value = store[cur'[l].id]]_vars
    /\ [](\A k \in DOMAIN store : store[k].retryCount >= hist[k].transient)

\* the page was reloaded while an entry that had failed once was queued
C7_Witness ==
    /\ lastOp = Op("reload", "doc", 0)
    /\ 1 \in DOMAIN store
    /\ store[1].retryCount = 1 /\ hist[1].transient = 1

OnlyTransient(k) == k \in Pending /\ hist[k].auth = 0

\* C8: an entry that met only transient outcomes is out of the store, by
\* give-up, once it has met maxRetries + 1 of them, and a give-up happens
\* after exactly that many.
C8_GiveUpAfterNPlusOne ==
    \A k \in Keys : OnlyTransient(k) =>
        /\ hist[k].transient >= config.maxRetries + 1 =>
               k \notin DOMAIN store /\ left[k].how = "giveup"
        /\ left[k].how = "giveup" => hist[k].transient = config.maxRetries + 1

\* C9: an entry leaves the store carrying a retryCount equal to the number of
\* transient outcomes (exception, 5xx, 429) it met.
C9_CountEqualsTransients ==
    \A k \in Keys : left[k].how # "in" => left[k].retryCount = hist[k].transient

\* C10: no step lowers the retryCount stored for an entry.
C10_NeverDecreases ==
    [][\A k \in DOMAIN store \cap DOMAIN store' :
          store'[k].retryCount >= store[k].retryCount]_vars

\* ------------------------------------------------------------- queue size
\* no drain step and no queue operation of the document context in progress
Quiescent ==
    /\ \A l \in Loops : CtxOf(l) = "doc" => pc[l] = "idle"
    /\ snd.pc \in {"idle", "done"}

\* C11: whenever the document context is quiescent, the queueSize its facade
\* shows equals the number of entries in the store.
C11_SizeMatchesStore == Quiescent => queueSize["doc"] = count(store)

\* --------------------------------------------------- how entries leave
Gone == DOMAIN store \ DOMAIN store'

\* the outcomes after which the specification lets the attempted entry go
RemovalAllowed(l, o) ==
    \/ ~o.threw /\ o.status >= 200 /\ o.status <= 299
    \/ ~o.threw /\ o.status >= 400 /\ o.status <= 499 /\ o.status # 429
         /\ (o.status = 401 => ~config.refreshToken)
    \/ IsTransientOutcome(o) /\ cur[l].value.retryCount + 1 > config.maxRetries

\* C12: a step that takes an entry out of the store is the answer to its
\* replay with a 2xx, with a permanent status, or with a transient outcome
\* that exhausts the retries, or a rejected token refresh, or a cancel that
\* found it; it takes out that entry alone.  Hence a transient outcome below
\* the limit, a resolved refresh, a backoff, a peek and a loss of
\* reachability remove nothing.
C12_LeavesOnlyByOutcomeOrCancel ==
    [][Gone # {} =>
        \/ \E l \in Loops, o \in Outcomes :
              Respond(l, o) /\ RemovalAllowed(l, o) /\ Gone = {cur[l].id}
        \/ \E l \in Loops : RefreshDone(l, FALSE) /\ Gone = {cur[l].id}
        \/ \E id \in CancelIds :
              CancelRequest(id) /\ Gone = {CancelledKey(store, id)}]_vars

\* reachability was lost during the backoff of an entry that had failed once:
\* the drain ended and the entry is still queued with its count
C12_Witness ==
    /\ ~navOnline
    /\ pc["doc1"] = "idle" /\ drainEv["doc1"].ends = 1
    /\ 1 \in DOMAIN store /\ store[1].retryCount = 1
    /\ hist[1].transient = 1 /\ left[1].how = "in"

\* ------------------------------------------------------ permanent answers
\* a 4xx other than 401 and 429
PermanentStatus(o) ==
    ~o.threw /\ o.status >= 400 /\ o.status <= 499 /\ o.status \notin {401, 429}

\* the request-error events for entry k among evs (each carries permanent: true)
ErrorEvents(evs, k) ==
    {i \in 1..Len(evs) : evs[i].name = "request-error" /\ evs[i].key = k}

\* C13: the answer of a replay with a 4xx other than 401 and 429 takes the
\* entry out of the store in that step, emits one request-error for it and
\* leaves the count it carried as it was stored; while reachable the loop
\* goes on to the next peek.  An entry that left this way is never in the
\* store again, never sent again and never reported again.
C13_PermanentAnswer ==
    /\ [][\A l \in Loops, o \in Outcomes :
             (Respond(l, o) /\ PermanentStatus(o)) =>
                 /\ store' = removeItem(store, cur[l].id)
                 /\ cur[l].id \in DOMAIN store
                 /\ Cardinality(ErrorEvents(emitted', cur[l].id)) = 1
                 /\ left'[cur[l].id].how = "permanent"
                 /\ left'[cur[l].id].retryCount = store[cur[l].id].retryCount
                 /\ hist'[cur[l].id].transient = hist[cur[l].id].transient
                 /\ isOnline(CtxOf(l), forcedOffline, navOnline) =>
                        pc'[l] = "peek" /\ isSyncing' = isSyncing]_vars
    /\ [](\A k \in Keys : left[k].how = "permanent" => k \notin DOMAIN store)
    /\ [][\A k \in Keys : left[k].how = "permanent" =>
             hist'[k] = hist[k] /\ ErrorEvents(emitted', k) = {}]_vars

\* the urgent entry was answered 400 on its first attempt and the drain is
\* now fetching the entry behind it
C13_Witness ==
    /\ left[2].how = "permanent" /\ left[2].retryCount = 0
    /\ hist[2].sent = 1 /\ hist[2].transient = 0
    /\ pc["doc1"] = "fetch" /\ cur["doc1"].id = 1
    /\ DOMAIN store = {1}

\* C14: without a refreshToken callback an entry whose replay was answered
\* 401 is out of the store, was sent once and kept its retryCount.
C14_Unauthorized ==
    \A k \in Keys : (~config.refreshToken /\ hist[k].auth >= 1) =>
        /\ k \notin DOMAIN store
        /\ hist[k].sent = 1
        /\ left[k].retryCount = 0

\* ------------------------------------------------------------ token refresh
\* C15: in one document context, when the refresh callback resolves after a
\* 401 the store is as it was, the entry is in it with the count the loop
\* holds in memory, no outcome is counted, and while reachable the loop goes
\* back to the peek, which answers that same entry; the fetch then issued is
\* for that entry with that count.
C15_RefreshRetriesSameEntry ==
    /\ [][\A l \in Loops : RefreshDone(l, TRUE) =>
             /\ store' = store
             /\ cur[l].id \in DOMAIN store
             /\ store[cur[l].id] = cur[l].value
             /\ hist' = hist /\ left' = left
             /\ isOnline(CtxOf(l), forcedOffline, navOnline) =>
                    /\ pc'[l] = "peek"
                    /\ peekNextRequest(store') = Entry(cur[l].id, cur[l].value)]_vars
    /\ [][\A l \in Loops :
             (lastOp.op = "refreshed" /\ pc[l] = "peek" /\ PeekDone(l)) =>
                 /\ cur'[l].id = lastOp.key
                 /\ cur'[l].value = store[lastOp.key]]_vars

\* the urgent entry is being fetched a second time after one 401, count 0
C15_Witness ==
    /\ config.refreshToken
    /\ pc["doc1"] = "fetch" /\ cur["doc1"].id = 2
    /\ hist[2].auth = 1 /\ hist[2].sent = 2 /\ hist[2].transient = 0
    /\ store[2].retryCount = 0 /\ cur["doc1"].value.retryCount = 0

NoSyncEnd(evs) == \A i \in 1..Len(evs) : evs[i].name # "sync:end"

\* C16: when the refresh callback rejects after a 401 the entry is taken out
\* of the store, one request-error is emitted for it, and while reachable the
\* loop stays active and goes to the next peek without a sync:end.
C16_RefreshRejected ==
    [][\A l \in Loops : RefreshDone(l, FALSE) =>
          /\ cur[l].id \in DOMAIN store
          /\ store' = removeItem(store, cur[l].id)
          /\ Cardinality(ErrorEvents(emitted', cur[l].id)) = 1
          /\ left'[cur[l].id].how = "refreshfail"
          /\ isOnline(CtxOf(l), forcedOffline, navOnline) =>
                 /\ pc'[l] = "peek" /\ isSyncing'[CtxOf(l)]
                 /\ NoSyncEnd(emitted')
                 /\ drainEv' = drainEv]_vars

\* the refresh for the urgent entry failed and the drain is fetching the
\* entry behind it
C16_Witness ==
    /\ left[2].how = "refreshfail"
    /\ pc["doc1"] = "fetch" /\ cur["doc1"].id = 1
    /\ DOMAIN store = {1}
    /\ drainEv["doc1"].ends = 0

\* ------------------------------------------------------------------ cancel
Cancelled(evs) == {i \in 1..Len(evs) : evs[i].name = "request:cancelled"}

\* C17: a cancel of an id that some pending entry carries answers true, takes
\* one entry with that id out of the store, lowers queueSize by one and makes
\* the facade emit request:cancelled once; a cancel of an id no entry carries
\* answers false, leaves store and queueSize as they are and emits no
\* request:cancelled; a cancel that answers true on a store of one entry
\* leaves a store on which peekNextRequest finds nothing.
C17_Cancel ==
    [][\A id \in IdPool : CancelRequest(id) =>
          IF \E k \in DOMAIN store : store[k].id = id
          THEN /\ lastOp'.op = "cancel-true"
               /\ Gone # {} /\ Cardinality(Gone) = 1
               /\ \A k \in Gone : store[k].id = id
               /\ \A k \in DOMAIN store' : store'[k] = store[k]
               /\ DOMAIN store' \subseteq DOMAIN store
               /\ queueSize'["doc"] = queueSize["doc"] - 1
               /\ Cardinality(Cancelled(emitted')) = 1
               /\ count(store) = 1 => ~peekNextRequest(store').found
          ELSE /\ lastOp'.op = "cancel-false"
               /\ store' = store /\ queueSize' = queueSize
               /\ Cancelled(emitted') = {}]_vars

\* one generated-id entry was queued on the empty store and then cancelled
C17_Witness ==
    /\ lastOp = Op("cancel-true", "doc", 1)
    /\ snd.id = generateUUID(1)
    /\ nextKey = 2 /\ DOMAIN store = {}
    /\ ~peekNextRequest(store).found
    /\ queueSize["doc"] = 0

\* every entry ever pending was cancelled before any replay of it was issued
AllCancelledUnsent ==
    \A k \in Pending : left[k].how = "cancel" /\ hist[k].sent = 0

EngineEvents(evs) ==
    {i \in 1..Len(evs) :
        evs[i].name \in {"sync:start", "sync:end", "queue-empty",
                         "request-success", "request-error"}}

Added == snd.pc = "enq" /\ snd'.stored = "ok"

DrainerDequeues(l) ==
    /\ (\E o \in Outcomes : Respond(l, o)) \/ RefreshDone(l, FALSE)
    /\ lastOp'.op \in {"success", "permanent", "giveup", "refreshfail"}

\* C21: when the entry a drain holds was taken out of the store by a cancel
\* before the drain reaches its dequeue, that dequeue leaves the store and
\* the cached size as they were.
C21_DequeueOfGoneIsNoOp ==
    [][\A l \in Loops :
          (DrainerDequeues(l) /\ cur[l].id \notin DOMAIN store) =>
              store' = store /\ queueSize' = queueSize]_vars

\* ------------------------------------------------- two drainers, one store
\* C22: with a drain of the document and a drain of the worker on one store,
\* a step takes an entry out of the store only if that entry never left the
\* store before (it is removed at most once) and only after a fetch for it
\* was issued.
C22_RemovedOnceAfterSend ==
    [][\A k \in Gone : left[k].how = "in" /\ hist[k].sent >= 1]_vars

\* ------------------------------------------------------------- event order
\* the request-success and request-error events among evs
RequestEvents(evs) ==
    {i \in 1..Len(evs) : evs[i].name \in {"request-success", "request-error"}}

Named(evs, name, c) ==
    {i \in 1..Len(evs) : evs[i].name = name /\ evs[i].ctx = c}

Running(l) == pc[l] # "idle" /\ drainEv[l] = [starts |-> 1, ends |-> 0]

UrgentRaws ==
    {[NoRaw EXCEPT !.url = "/u", !.method = "POST", !.priority = p] :
        p \in {"high", "low"}}

\* one document context with a normal entry pending; the application calls
\* fetch while the drain runs, and a call that fails over is queued (the
\* application stops calling once one call was queued)
InitPreempt ==
    \E cfg \in Configs :
        InitWith([k \in {1} |-> NewItem(DrainRequest("normal"), 1)],
                 TRUE, FALSE, FALSE, cfg)

NextPreempt ==
    \/ SyncNow
    \/ DrainSteps
    \/ \E raw \in UrgentRaws : nextKey = 2 /\ SendStart(raw)
    \/ \E o \in Outcomes : SendNetReturn(o)
    \/ \E b \in BOOLEAN : SendEnqueue(b)
    \/ GoOnline
    \/ GoOffline

SpecPreempt == InitPreempt /\ [][NextPreempt]_vars

TwinStores ==
    {st \in PendingStores :
        count(st) = 2 /\ \A j, k \in DOMAIN st : st[j].priority = st[k].priority}

\* one document context draining two entries of the same class
InitFifo ==
    \E st \in TwinStores, cfg \in Configs :
        InitWith(st, TRUE, FALSE, FALSE, cfg)

NextFifo ==
    \/ SyncNow
    \/ DrainSteps
    \/ GoOnline
    \/ GoOffline

SpecFifo == InitFifo /\ [][NextFifo]_vars

\* the entries of the class of entry k that arrived before it and are queued
EarlierInClass(s, k) ==
    {j \in DOMAIN s : j < k /\ s[j].priority = s[k].priority}

\* C25: a transient outcome that leaves the entry queued leaves it under its
\* key, first of its class; every fetch a drain issues is for the entry of
\* its class that arrived first among those queued; so an entry is not
\* attempted while an earlier entry of its class is still queued, however
\* often that one has failed.
C25_FailingHeadStaysFirst ==
    /\ [][\A l \in Loops :
             ((\E o \in Outcomes : Respond(l, o)) /\ lastOp'.op = "retry") =>
                 /\ cur[l].id \in DOMAIN store'
                 /\ store'[cur[l].id].retryCount = cur[l].value.retryCount + 1
                 /\ EarlierInClass(store', cur[l].id) = {}
                 /\ DOMAIN store' = DOMAIN store]_vars
    /\ [][\A l \in Loops : (PeekDone(l) /\ pc'[l] = "fetch") =>
             EarlierInClass(store, cur'[l].id) = {}]_vars
    /\ [](\A k \in DOMAIN store :
             hist[k].sent >= 1 => EarlierInClass(store, k) = {})

\* the first entry failed once and is being fetched again; the entry behind
\* it has not been attempted
C25_Witness ==
    /\ pc["doc1"] = "fetch" /\ cur["doc1"].id = 1
    /\ cur["doc1"].value.retryCount = 1 /\ store[1].retryCount = 1
    /\ hist[1].sent = 2 /\ hist[1].transient = 1
    /\ 2 \in DOMAIN store /\ store[2].priority = store[1].priority
    /\ hist[2].sent = 0
    /\ config.maxRetries = 1

\* ------------------------------------------- storage failures in the drain
\* an exception that no catch of startSync handles: the finally block runs
\* and the promise startSync returned rejects
Escapes(l) ==
    /\ Finally(l, << >>)
    /\ cur' = [cur EXCEPT ![l] = NoEntry]
    /\ lastOp' = Op("rejected", CtxOf(l), cur[l].id)
    /\ UNCHANGED <<store, queueSize, left>>

\* await this.queue.peekNextRequest() rejects: the peek is outside the inner
\* try, so the exception leaves the loop
PeekRejects(l) ==
    /\ pc[l] = "peek"
    /\ Escapes(l)
    /\ UNCHANGED <<nextKey, netVars, envVars, swRegistered, snd, hist, harnessVars>>

\* the fetch was answered 2xx and the dequeue of the success branch rejects:
\* the inner catch takes the storage error, which has no status, into the
\* transient branch; its own storage call settles or rejects as well
SuccessDequeueRejects(l, o, recovers) ==
    /\ pc[l] = "fetch"
    /\ ~o.threw /\ ok(o.status)
    /\ hist[cur[l].id].transient < MaxFail
    /\ IF recovers
       THEN TransientBranch(l, cur[l].value.retryCount + 1)
       ELSE Escapes(l)
    /\ UNCHANGED <<nextKey, netVars, envVars, swRegistered, snd, hist, harnessVars>>

\* the fetch failed and the dequeueRequest or updateRequest of the catch
\* block rejects: nothing encloses it but the finally
HandlerStorageRejects(l, o) ==
    /\ pc[l] = "fetch"
    /\ LET k == cur[l].id
       IN  /\ ~(~o.threw /\ ok(o.status))
           /\ ~(~o.threw /\ o.status = 401 /\ config.refreshToken)
           /\ (~o.threw /\ o.status = 401) => hist[k].auth < MaxAuth
           /\ IsTransientOutcome(o) => hist[k].transient < MaxFail
           /\ hist' = [hist EXCEPT
                  ![k].auth = IF ~o.threw /\ o.status = 401 THEN @ + 1 ELSE @,
                  ![k].transient = IF IsTransientOutcome(o) THEN @ + 1 ELSE @]
    /\ Escapes(l)
    /\ UNCHANGED <<nextKey, netVars, envVars, swRegistered, snd, harnessVars>>

\* the refresh callback rejected and the dequeue in its catch block rejects
RefreshDequeueRejects(l) ==
    /\ pc[l] = "refresh"
    /\ Escapes(l)
    /\ UNCHANGED <<nextKey, netVars, envVars, swRegistered, snd, hist, harnessVars>>

StorageFaults ==
    \/ \E l \in Loops : PeekRejects(l)
    \/ \E l \in Loops, o \in Outcomes, b \in BOOLEAN : SuccessDequeueRejects(l, o, b)
    \/ \E l \in Loops, o \in Outcomes : HandlerStorageRejects(l, o)
    \/ \E l \in Loops : RefreshDequeueRejects(l)

\* one document context draining one entry over a database whose
\* transactions may fail
InitFault ==
    \E st \in {s \in PendingStores : count(s) = 1}, cfg \in Configs :
        InitWith(st, TRUE, FALSE, FALSE, cfg)

NextFault ==
    \/ SyncNow
    \/ DrainSteps
    \/ StorageFaults
    \/ GoOnline
    \/ GoOffline

SpecFault == InitFault /\ [][NextFault]_vars

\* C26: a drain ends only because its peek found the store empty or because
\* the network is no longer reachable, never because an error raised while
\* an entry was processed left startSync as a rejection.
C26_ErrorsStayInside ==
    [][\A l \in Loops : (pc[l] # "idle" /\ pc'[l] = "idle") =>
          /\ lastOp'.op # "rejected"
          /\ \/ lastOp'.op = "peek-empty"
             \/ ~isOnline(CtxOf(l), forcedOffline, navOnline)]_vars

\* ------------------------------------------------ drains started by the watcher
\* one document context whose application never calls syncNow: the platform
\* goes on and off line and the application sets and clears the override
InitWake ==
    \E st \in MixedStores, cfg \in Configs, on \in BOOLEAN :
        InitWith(st, on, FALSE, FALSE, cfg)

NextWake ==
    \/ DrainSteps
    \/ GoOnline
    \/ GoOffline
    \/ \E b \in BOOLEAN : SetOfflineMode(b)

SpecWake == InitWake /\ [][NextWake]_vars

\* what NetworkWatcher.isOnline() answers in the document
Reachable == isOnline("doc", forcedOffline, navOnline)

RegistrationAttempted == snd.pc = "reg" \/ snd.reg # "none"

\* C29: a fetch attempts the registration of the sync tag only if it was
\* queued because the watcher reported offline when it was called (never
\* after a fallback from window.fetch), and on a platform with background
\* sync every fetch queued for that reason has attempted it by the time it
\* settles.
C29_RegisteredIffOfflineCaused ==
    /\ RegistrationAttempted => ~snd.online
    /\ (snd.pc = "done" /\ ~snd.online /\ snd.stored = "ok" /\ swSupported)
           => snd.reg # "none"

\* ------------------------------------------ two instances, two database names
\* the database a RestSyncLite built with dbName opens: the constructor
\* builds its QueueManager without arguments (index.ts:39) and init() opens
\* DB_NAME (queue-manager.ts:23), whatever the configuration names
DatabaseOf(dbName) == DB_NAME

DbOf(i) == databases[DatabaseOf(instances[i].dbName)]

PutDb(i, s, nk) ==
    [databases EXCEPT ![DatabaseOf(instances[i].dbName)] =
        [store |-> s, nextKey |-> nk]]

\* new RestSyncLite({dbName: name}): QueueManager.init seeds the size
Construct(i, name) ==
    /\ ~instances[i].constructed
    /\ instances' = [instances EXCEPT ![i] =
           [constructed |-> TRUE, dbName |-> name,
            size |-> count(databases[DatabaseOf(name)].store)]]
    /\ emitted' = <<Ev("queue:update", i, 0)>>
    /\ lastOp' = Op("construct", i, 0)
    /\ UNCHANGED <<storeVars, queueSize, netVars, envVars, swRegistered,
                   engineVars, snd, hist, left, qphase, out, databases,
                   registry>>

\* instance i queues a request (fetch while offline)
InstEnqueue(i, p) ==
    /\ instances[i].constructed
    /\ DbOf(i).nextKey <= MaxEnq
    /\ LET k == DbOf(i).nextKey
       IN  /\ databases' = PutDb(i, addItem(DbOf(i).store, k,
                                            NewItem(QRequest(p), k)), k + 1)
           /\ emitted' = <<Ev("queue:update", i, k)>>
           /\ lastOp' = Op("enqueue", i, k)
    /\ instances' = [instances EXCEPT ![i].size = @ + 1]
    /\ UNCHANGED <<storeVars, queueSize, netVars, envVars, swRegistered,
                   engineVars, snd, hist, left, qphase, out, registry>>

\* instance i cancels by id
InstCancel(i, id) ==
    /\ instances[i].constructed
    /\ LET s == DbOf(i).store
           k == CancelledKey(s, id)
       IN  /\ databases' = PutDb(i, removeByField(s, id), DbOf(i).nextKey)
           /\ instances' = IF CancelResult(s, id)
                           THEN [instances EXCEPT ![i].size =
                                    IF @ > 0 THEN @ - 1 ELSE 0]
                           ELSE instances
           /\ emitted' = IF CancelResult(s, id)
                         THEN <<Ev("queue:update", i, k),
                                Ev("request:cancelled", i, k)>>
                         ELSE << >>
           /\ lastOp' = Op(IF CancelResult(s, id) THEN "cancel-true"
                           ELSE "cancel-false", i, k)
    /\ UNCHANGED <<storeVars, queueSize, netVars, envVars, swRegistered,
                   engineVars, snd, hist, left, qphase, out, registry>>

\* one iteration of instance i's drain whose replay is answered 2xx: peek,
\* fetch, dequeue, request-success
InstReplay(i) ==
    /\ instances[i].constructed
    /\ LET next == peekNextRequest(DbOf(i).store)
       IN  /\ next.found
           /\ databases' = PutDb(i, removeItem(DbOf(i).store, next.id),
                                 DbOf(i).nextKey)
           /\ emitted' = <<Ev("queue:update", i, next.id),
                           Ev("request-success", i, next.id)>>
           /\ lastOp' = Op("success", i, next.id)
    /\ instances' = [instances EXCEPT ![i].size = IF @ > 0 THEN @ - 1 ELSE 0]
    /\ UNCHANGED <<storeVars, queueSize, netVars, envVars, swRegistered,
                   engineVars, snd, hist, left, qphase, out, registry>>

\* the names a page may pass as dbName (absent: the default)
ConfiguredNames == {Undefined, "a", "b"}

NextTwo ==
    \/ \E i \in Instances, name \in ConfiguredNames : Construct(i, name)
    \/ \E i \in Instances, p \in {"high", "normal"} : InstEnqueue(i, p)
    \/ \E i \in Instances, id \in CancelIds : InstCancel(i, id)
    \/ \E i \in Instances : InstReplay(i)

SpecTwo == InitQueue /\ [][NextTwo]_vars

\* what instance i shows: the entries of getQueueItems() and queueSize
Observed(i) == [items |-> DbOf(i).store, size |-> instances[i].size]

\* C30: when two instances were built with different dbName values, an
\* enqueue, a cancel or a replay made through one leaves the entries and the
\* size the other one shows as they were.
C30_IndependentQueues ==
    [][\A i, j \in Instances :
          (/\ i # j
           /\ instances[i].constructed /\ instances[j].constructed
           /\ instances[i].dbName # instances[j].dbName
           /\ lastOp'.ctx = i
           /\ lastOp'.op \in {"enqueue", "cancel-true", "cancel-false", "success"})
              => Observed(j)' = Observed(j)]_vars

\* ------------------------------------------------------ the body on replay
\* JSON.stringify of a value that is not text
JSONstringify(b) == [kind |-> "string", text |-> <<"JSON">> \o b.text]

\* processRequest: typeof item.body === 'string' ? item.body
\*                 : (item.body ? JSON.stringify(item.body) : undefined)
ReplayBody(b) ==
    IF b.kind = "string" THEN b
    ELSE IF b.kind \in {"null", Undefined}
    THEN [kind |-> Undefined, text |-> << >>]
    ELSE JSONstringify(b)

\* the request a loop suspended at its fetch has handed to window.fetch
InFlightBody(l) == ReplayBody(cur[l].value.body)

\* the bodies an application may pass, one of each kind
BodyRaws ==
    {[NoRaw EXCEPT !.url = "/b", !.method = "POST", !.body = b] :
        b \in {[kind |-> "null", text |-> << >>],
               [kind |-> "string", text |-> <<"hello">>],
               [kind |-> "object", text |-> <<"n:1">>],
               [kind |-> "blob", text |-> <<"bytes">>],
               [kind |-> "buffer", text |-> <<"bytes">>],
               [kind |-> "form", text |-> <<"a=1">>],
               [kind |-> "params", text |-> <<"a=1">>]}}

\* one document context draining one entry that the facade queued
InitReplay ==
    \E raw \in BodyRaws, cfg \in Configs :
        InitWith([k \in {1} |-> NewItem(QueuedRequest(raw), 1)],
                 TRUE, FALSE, FALSE, cfg)

NextReplay ==
    \/ SyncNow
    \/ DrainSteps
    \/ GoOnline
    \/ GoOffline

SpecReplay == InitReplay /\ [][NextReplay]_vars

\* the same body: an absent body and a null body both mean no body
SameBody(sent, stored) ==
    IF stored.kind = "null" THEN sent.kind \in {"null", Undefined}
    ELSE sent = stored

\* C31: while the fetch of a replay is pending, the body it was given is the
\* body stored with the entry, whatever its kind.
C31_BodyAsStored ==
    \A l \in Loops : pc[l] = "fetch" => SameBody(InFlightBody(l), cur[l].value.body)

\* ------------------------------------------------- the watcher's notifications
\* the value a network:change event carries
Notified(evs) ==
    {evs[i].key = 1 : i \in Named(evs, "network:change", "doc")}

\* C32: a step notifies the subscribers exactly when it changes the
\* effective state (platform online and not forced offline), once, with the
\* new effective state as value, which is also the watcher's new state; so
\* each notification differs from the one before it, and none carries true
\* while the override is set.
C32_NotifiesOnChangeOnly ==
    /\ [](wIsOnline = Reachable)
    /\ [][/\ Cardinality(Named(emitted', "network:change", "doc")) =
                 IF Reachable' # Reachable THEN 1 ELSE 0
          /\ \A v \in Notified(emitted') :
                 /\ v = Reachable' /\ v = wIsOnline'
                 /\ v # wIsOnline
                 /\ v => ~forcedOffline']_vars

\* the platform came back while the override was set: nobody was told
C32_Witness ==
    /\ lastOp = Op("online", "doc", 0)
    /\ forcedOffline /\ navOnline /\ ~wIsOnline
    /\ emitted = << >>

\* ------------------------------------------------------- utils/events.ts
\* the functions an application may register: the second and fourth throw
Fns == {[id |-> 1, throws |-> FALSE], [id |-> 2, throws |-> TRUE],
        [id |-> 3, throws |-> FALSE], [id |-> 4, throws |-> TRUE]}

RECURSIVE forEachBare(_)
\* a forEach without the try: the first exception ends the iteration
forEachBare(ls) ==
    IF ls = << >> THEN << >>
    ELSE IF Head(ls).throws THEN <<Head(ls).id>>
    ELSE <<Head(ls).id>> \o forEachBare(Tail(ls))

\* an emit that lets a listener's exception out
emit_NoCatch(ls) ==
    [invoked |-> forEachBare(ls),
     propagated |-> \E i \in 1..Len(ls) : ls[i].throws]

RECURSIVE forEachCaught(_)
\* listeners.forEach(fn => { try { fn(params) } catch (err) { console.error } })
forEachCaught(ls) ==
    IF ls = << >> THEN << >>
    ELSE <<Head(ls).id>> \o forEachCaught(Tail(ls))

\* EventEmitter.emit: the listeners invoked, in order, and whether an
\* exception reaches the caller
emit(ls) == [invoked |-> forEachCaught(ls), propagated |-> FALSE]

RegistryFrame ==
    UNCHANGED <<storeVars, queueSize, netVars, envVars, swRegistered,
                engineVars, snd, hist, left, qphase, out, instVars>>

\* EventEmitter.on: push
On(fn) ==
    /\ Len(registry.listeners) < MaxListeners
    /\ registry' = [listeners |-> Append(registry.listeners, fn),
                    invoked |-> << >>, propagated |-> FALSE]
    /\ emitted' = << >>
    /\ lastOp' = Op("on", "none", fn.id)
    /\ RegistryFrame

\* EventEmitter.off: filter(l => l !== fn)
Off(fn) ==
    /\ \E i \in 1..Len(registry.listeners) : registry.listeners[i] = fn
    /\ registry' = [listeners |-> SelectSeq(registry.listeners,
                                            LAMBDA l : l # fn),
                    invoked |-> << >>, propagated |-> FALSE]
    /\ emitted' = << >>
    /\ lastOp' = Op("off", "none", fn.id)
    /\ RegistryFrame

\* EventEmitter.emit(eventName, params)
Emit ==
    /\ registry' = [listeners |-> registry.listeners,
                    invoked |-> emit(registry.listeners).invoked,
                    propagated |-> emit(registry.listeners).propagated]
    /\ emitted' = << >>
    /\ lastOp' = Op("emit", "none", Len(registry.listeners))
    /\ RegistryFrame

NextEmit ==
    \/ \E fn \in Fns : On(fn)
    \/ \E fn \in Fns : Off(fn)
    \/ Emit

SpecEmit == InitQueue /\ [][NextEmit]_vars

\* C33: an emission invokes every registered listener, in registration
\* order, whether or not some of them throw, and no exception reaches the
\* caller of emit.
C33_ListenersIsolated ==
    lastOp.op = "emit" =>
        /\ Len(registry.invoked) = Len(registry.listeners)
        /\ \A i \in 1..Len(registry.listeners) :
               registry.invoked[i] = registry.listeners[i].id
        /\ ~registry.propagated

\* the throwing listener sits between two others and all three were called
C33_Witness ==
    /\ lastOp = Op("emit", "none", 3)
    /\ registry.listeners[2].throws
    /\ registry.invoked = <<1, 2, 3>>
    /\ ~registry.propagated

\* ------------------------------------------------------- the end of a drain
\* loop l ends in this step
Ends(l) == pc[l] # "idle" /\ pc'[l] = "idle"

C35_QueueEmptyOnlyOnEmptyPeek ==
    /\ [][\A c \in Contexts :
             Named(emitted', "queue-empty", c) # {} <=>
                 \E l \in Loops : /\ CtxOf(l) = c /\ PeekDone(l)
                                  /\ ~peekNextRequest(store).found]_vars
    /\ [][\A l \in Loops :
             (pc[l] \in {"fetch", "refresh", "backoff"} /\ pc'[l] = "peek") =>
                 isOnline(CtxOf(l), forcedOffline, navOnline)]_vars
    /\ [][\A l \in Loops : (Ends(l) /\ lastOp'.op # "peek-empty") =>
             /\ ~isOnline(CtxOf(l), forcedOffline, navOnline)
             /\ Named(emitted', "queue-empty", CtxOf(l)) = {}
             /\ \A k \in Keys : hist'[k].sent = hist[k].sent
             /\ \A k \in DOMAIN store \ {cur[l].id} :
                    k \in DOMAIN store' /\ store'[k] = store[k]
             /\ lastOp'.op \in {"backoff-done", "refreshed"} => store' = store]_vars
    /\ [][\A l \in Loops : pc[l] = "idle" => pc'[l] \in {"idle", "peek"}]_vars

\* the connection was lost during the first replay; its 2xx was handled, the
\* drain ended and the entry behind it was left as it was, unsent
C35_Witness ==
    /\ lastOp = Op("success", "doc", 1)
    /\ ~navOnline /\ pc["doc1"] = "idle" /\ ~isSyncing["doc"]
    /\ emitted = <<Ev("queue:update", "doc", 1), Ev("request-success", "doc", 1),
                   Ev("sync:end", "doc", 0)>>
    /\ DOMAIN store = {2} /\ store[2].retryCount = 0 /\ hist[2].sent = 0

\* ------------------------------------------------- cancelled entries stay out
\* C36: in a page that queues nothing new, an entry that a cancel took out
\* of the store is not in the store in any later state, and no entry there
\* carries its id.
C36_CancelledStaysOut ==
    \A k \in Keys : left[k].how = "cancel" =>
        /\ k \notin DOMAIN store
        /\ \A j \in DOMAIN store : store[j].id # generateUUID(k)

\* --------------------------------------------- entries queued while online
\* a call that the server answers or that fails in the network
FallbackRaws == {[NoRaw EXCEPT !.url = "/f", !.method = "POST"]}

\* one document context on a network that stays reachable: the application
\* calls fetch once and may or may not call syncNow
InitIdle ==
    \E cfg \in Configs : InitWith(EmptyStore, TRUE, FALSE, FALSE, cfg)

IdleSendSteps ==
    \/ \E o \in Outcomes : SendNetReturn(o)
    \/ \E b \in BOOLEAN : SendEnqueue(b)

NextIdle ==
    \/ \E raw \in FallbackRaws : nextKey = 1 /\ SendStart(raw)
    \/ IdleSendSteps
    \/ SyncNow
    \/ DrainSteps

\* every pending fetch, storage transaction, refresh and timer settles;
\* nothing obliges the application to call syncNow
SpecIdle ==
    InitIdle /\ [][NextIdle]_vars /\ WF_vars(IdleSendSteps) /\ WF_vars(DrainSteps)

\* C37: on a network that stays reachable, an entry that is in the store is
\* eventually attempted by a drain.
C37_QueuedIsEventuallySent ==
    \A k \in 1..MaxSends : [](k \in DOMAIN store => <>(hist[k].sent >= 1))

\* ------------------------------------- a server that keeps answering 401
\* processRequest throws status 401 once more after a refresh that resolved:
\* the engine awaits the refresh callback again (the history of 401 answers
\* kept for the properties stays at its cap)
RespondUnauthorizedAgain(l) ==
    /\ pc[l] = "fetch"
    /\ config.refreshToken
    /\ hist[cur[l].id].auth = MaxAuth
    /\ pc' = [pc EXCEPT ![l] = "refresh"]
    /\ emitted' = << >>
    /\ lastOp' = Op("refresh", CtxOf(l), cur[l].id)
    /\ UNCHANGED <<store, queueSize, left, cur, isSyncing, drainEv, hist>>
    /\ UNCHANGED <<nextKey, netVars, envVars, swRegistered, snd, harnessVars>>

InitAuth ==
    \E st \in PendingStores, cfg \in Configs :
        InitWith(st, TRUE, FALSE, FALSE, cfg)

AuthSteps ==
    \/ DrainSteps
    \/ \E l \in Loops : RespondUnauthorizedAgain(l)

NextAuth ==
    \/ SyncNow
    \/ AuthSteps

\* every fetch is answered, every refresh callback, storage transaction and
\* backoff timer settles
SpecAuth == InitAuth /\ [][NextAuth]_vars /\ WF_vars(AuthSteps)

\* C38: a drain that has started eventually ends.
C38_DrainTerminates ==
    \A l \in Loops : [](pc[l] # "idle" => <>(pc[l] = "idle"))

\* C39: a retry is scheduled only for an entry whose count of failed attempts
\* is within the configured maxRetries; with maxRetries = 0 no retry is ever
\* scheduled and no stored entry carries a raised count.
C39_ConfiguredLimitHonoured ==
    /\ \A l \in Loops :
           pc[l] = "backoff" => cur[l].value.retryCount <= config.maxRetries
    /\ config.maxRetries = 0 => \A k \in DOMAIN store : store[k].retryCount = 0

\* the request-success events of a step that are for entry k
SuccessEvents(evs, k) ==
    {i \in 1..Len(evs) : evs[i].name = "request-success" /\ evs[i].key = k}

\* entry k has been answered 2xx and reported
Delivered(k) == left[k].how = "success"

\* C40: in one document context whose storage does not fail, the step in
\* which an entry is answered 2xx removes it, emits one request-success for
\* it and is the first such step for that entry; a delivered entry is not in
\* the store, is held by no drain and is never fetched again.
C40_DeliveredOnce ==
    /\ [](\A k \in Keys : Delivered(k) =>
              /\ k \notin DOMAIN store
              /\ \A l \in Loops : cur[l].id # k)
    /\ [][\A l \in Loops :
              /\ (\E o \in TwoXX : Respond(l, o)) =>
                     /\ ~Delivered(cur[l].id)
                     /\ left'[cur[l].id].how = "success"
                     /\ Cardinality(SuccessEvents(emitted', cur[l].id)) = 1
              /\ (pc[l] # "fetch" /\ pc'[l] = "fetch") => ~Delivered(cur'[l].id)]_vars
    /\ [][\A k \in Keys : SuccessEvents(emitted', k) # {} => ~Delivered(k)]_vars

\* the urgent entry was delivered and the drain has fetched the other one
C40_Witness ==
    /\ Delivered(2) /\ ~Delivered(1)
    /\ \E l \in Loops : pc[l] = "fetch" /\ cur[l].id = 1
    /\ hist[2].sent = 1

====
